---- MODULE Spec2Model ----
(***************************************************************************)
(* The turn loop of voice_agent.py: VoicePipeline.run drives the LCEL      *)
(* chain _transcribe_stream | _agent_stream | _tts_stream once per         *)
(* iteration of its while loop, and tts_fn is _play_tts_from_text (the     *)
(* default main() uses).  The three generators run as one logical thread   *)
(* of control, suspended at the awaits on transcribe_fn, on the agent      *)
(* stream and inside _play_tts_from_text; the executor thread that does    *)
(* the device writes is the only other thread.                             *)
(*                                                                         *)
(* Text is a sequence of characters over Chars; " " is the whitespace      *)
(* character str.strip() removes.                                          *)
(***************************************************************************)
EXTENDS Integers, Sequences, FiniteSets, TLC

\* ---------------------------------------------------------------- bounds
\* Turns the loop is followed for (the loop itself is unbounded).
MaxTurns == 2
\* Messages one agent stream produces at most.
MaxChunks == 2
\* Characters of one agent message.
MaxLen == 1
\* Characters of the text handed to a direct _play_tts_from_text call.
MaxSpeakLen == 3
\* Audio chunks one synthesis stream produces at most.
MaxAudio == 2

Chars == {"a", " "}

Whitespace == {" "}

\* What transcribe_fn may return: nothing, a whitespace, a word.  The code only
\* tests the transcript for emptiness and hands it to the agent.
Transcripts == {<<>>, <<" ">>, <<"a">>}

\* All texts of at most n characters.
Texts(n) == UNION {[1..k -> Chars] : k \in 0..n}

VARIABLES
    pc,                     \* where run's thread of control stands
    turn_number,            \* self.turn_number
    turn,                   \* the turn number the generators carry
    transcript,             \* payload["transcript"]
    agent_pos,              \* messages the agent stream has produced so far
    agent_response_chunks,  \* the list _agent_stream accumulates
    response_text,          \* payload["response_text"]
    output,                 \* run's local `output`: <<>> while unbound
    run_exc,                \* what left run: "none", "Interrupt", "UnboundLocalError"
    text,                   \* _play_tts_from_text's argument
    stripped,               \* its local `stripped`
    speak_pc,               \* where _play_tts_from_text stands
    speak_exc,              \* what it raised: "none", "Exception", "Interrupt"
    synth,                  \* audio_generator: "none", "requested", "streaming", "ended", "failed"
    pyaudio,                \* p: "none", "created", "terminated"
    audio_stream,           \* audio_stream: "none", "open", "closed"
    produced,               \* audio chunks the synthesis stream has yielded
    written,                \* chunks whose device write completed, in order
    writer,                 \* the executor thread: "idle" or "busy" in audio_stream.write
    closed_in_write,        \* stop_stream/close ran while a write was executing
    outstanding,            \* stage calls entered and not yet left
    trace,                  \* stage entries and exits, in order
    stream_text,            \* the text the agent stream's AI messages carried, in order
    events,                 \* events.py: the agent events created so far, in order
    event,                  \* events.py: the event handed to event_to_dict, <<>> if none
    wire                    \* events.py: what event_to_dict returned, <<>> if not called

speakVars == <<text, stripped, speak_pc, speak_exc, synth, pyaudio, audio_stream,
               produced, written, writer, closed_in_write>>

turnVars == <<turn, transcript, agent_pos, agent_response_chunks, response_text,
              stream_text>>

eventVars == <<events, event, wire>>

pipeVars == <<pc, turn_number, turnVars, output, run_exc, outstanding, trace, eventVars>>

vars == <<pipeVars, speakVars>>

\* ------------------------------------------------------------ pure helpers
\* str.strip(): drop leading and trailing whitespace.
RECURSIVE LStrip(_)
LStrip(s) ==
    IF s = <<>> THEN <<>>
    ELSE IF Head(s) \in Whitespace THEN LStrip(Tail(s)) ELSE s

RECURSIVE RStrip(_)
RStrip(s) ==
    IF s = <<>> THEN <<>>
    ELSE IF s[Len(s)] \in Whitespace THEN RStrip(SubSeq(s, 1, Len(s) - 1)) ELSE s

StripIdentity(s) == s

Strip(s) == RStrip(LStrip(s))

\* "".join(chunks)
RECURSIVE Join(_)
Join(chunks) ==
    IF chunks = <<>> THEN <<>> ELSE Head(chunks) \o Join(Tail(chunks))

\* Python truthiness of a str: `not s` is true of the empty string only.
Falsy(s) == Len(s) = 0

\* What a returned text was: "empty", "blank" (whitespace only) or "text".
Blank(s) == \A i \in 1..Len(s) : s[i] \in Whitespace

Kind(s) == IF s = <<>> THEN "empty" ELSE IF Blank(s) THEN "blank" ELSE "text"

\* What transcribe_fn returned: nothing, or a transcript.
Heard(s) == IF s = <<>> THEN "empty" ELSE "text"

\* One entry of the instrumentation: a stage call entered or left in turn n.
Ev(e, n, v) == [ev |-> e, turn |-> n, val |-> v]

\* ------------------------------------------------- _play_tts_from_text
\* The finally block: stop_stream(), close(), terminate(), with no await between
\* them.  A write still executing in the executor thread is not waited for.
Finally(inWrite) ==
    /\ audio_stream' = "closed"
    /\ pyaudio' = "terminated"
    /\ closed_in_write' = (closed_in_write \/ inWrite)

\* Entry of the call up to its first suspension: the strip and the empty check,
\* the synthesis stream request, PyAudio(), p.open(), and the first pull on the
\* synthesis stream.  p.open() may fail (no device); that is before the try.
SpeakCall(t) ==
    /\ text' = t
    /\ stripped' = Strip(t)
    /\ produced' = 0
    /\ written' = <<>>
    /\ UNCHANGED <<writer, closed_in_write>>
    /\ IF Falsy(Strip(t))
       THEN /\ speak_pc' = "returned"
            /\ speak_exc' = "none"
            /\ synth' = "none"
            /\ pyaudio' = "none"
            /\ audio_stream' = "none"
       ELSE \/ /\ synth' = "streaming"
               /\ pyaudio' = "created"
               /\ audio_stream' = "open"
               /\ speak_pc' = "await_chunk"
               /\ speak_exc' = "none"
            \/ /\ synth' = "requested"
               /\ pyaudio' = "created"
               /\ audio_stream' = "none"
               /\ speak_pc' = "raised"
               /\ speak_exc' = "Exception"

SynthChunkNoAwait ==
    /\ speak_pc \in {"await_chunk", "await_write"}
    /\ produced < MaxAudio
    /\ produced' = produced + 1
    /\ writer' = "busy"
    /\ speak_pc' = "await_write"
    /\ UNCHANGED <<text, stripped, speak_exc, synth, pyaudio, audio_stream,
                   written, closed_in_write>>
    /\ UNCHANGED pipeVars

\* The synthesis stream yields a chunk; the write is handed to the executor.
SynthChunk ==
    /\ speak_pc = "await_chunk"
    /\ produced < MaxAudio
    /\ produced' = produced + 1
    /\ writer' = "busy"
    /\ speak_pc' = "await_write"
    /\ UNCHANGED <<text, stripped, speak_exc, synth, pyaudio, audio_stream,
                   written, closed_in_write>>
    /\ UNCHANGED pipeVars

\* The executor's write returns; the loop pulls the next chunk.
WriteDone ==
    /\ speak_pc = "await_write"
    /\ writer = "busy"
    /\ written' = Append(written, produced)
    /\ writer' = "idle"
    /\ speak_pc' = "await_chunk"
    /\ UNCHANGED <<text, stripped, speak_exc, synth, pyaudio, audio_stream,
                   produced, closed_in_write>>
    /\ UNCHANGED pipeVars

\* audio_stream.write raises in the executor; the await re-raises it.
WriteRaise ==
    /\ speak_pc = "await_write"
    /\ writer = "busy"
    /\ writer' = "idle"
    /\ Finally(FALSE)
    /\ speak_pc' = "raised"
    /\ speak_exc' = "Exception"
    /\ UNCHANGED <<text, stripped, synth, produced, written>>
    /\ UNCHANGED pipeVars

\* The synthesis stream is exhausted: "Playback complete", then the finally.
SynthEnd ==
    /\ speak_pc = "await_chunk"
    /\ synth' = "ended"
    /\ Finally(writer = "busy")
    /\ speak_pc' = "returned"
    /\ UNCHANGED <<text, stripped, speak_exc, produced, written, writer>>
    /\ UNCHANGED pipeVars

SynthRaiseNoFinally ==
    /\ speak_pc = "await_chunk"
    /\ synth' = "failed"
    /\ speak_pc' = "raised"
    /\ speak_exc' = "Exception"
    /\ UNCHANGED <<text, stripped, pyaudio, audio_stream, produced, written,
                   writer, closed_in_write>>
    /\ UNCHANGED pipeVars

\* The synthesis backend raises mid-stream: the finally, then the error.
SynthRaise ==
    /\ speak_pc = "await_chunk"
    /\ synth' = "failed"
    /\ Finally(writer = "busy")
    /\ speak_pc' = "raised"
    /\ speak_exc' = "Exception"
    /\ UNCHANGED <<text, stripped, produced, written, writer>>
    /\ UNCHANGED pipeVars

\* Cancellation reaches the call at one of its awaits: the finally runs at once,
\* whether or not the executor thread is inside audio_stream.write.
SpeakCancel ==
    /\ speak_pc \in {"await_chunk", "await_write"}
    /\ Finally(writer = "busy")
    /\ speak_pc' = "raised"
    /\ speak_exc' = "Interrupt"
    /\ UNCHANGED <<text, stripped, synth, produced, written, writer>>
    /\ UNCHANGED pipeVars

\* The executor thread leaves a write whose await was cancelled.
WriterFinish ==
    /\ writer = "busy"
    /\ speak_pc # "await_write"
    /\ writer' = "idle"
    /\ UNCHANGED <<text, stripped, speak_pc, speak_exc, synth, pyaudio,
                   audio_stream, produced, written, closed_in_write>>
    /\ UNCHANGED pipeVars

\* ------------------------------------------------------- VoicePipeline
\* The locals the three generators hold for the turn in progress.
TurnLocals(n, t, p, c, r) ==
    /\ turn' = n
    /\ transcript' = t
    /\ agent_pos' = p
    /\ agent_response_chunks' = c
    /\ response_text' = r
    /\ stream_text' = <<>>

\* The generators of one astream call are finished: their locals are gone.
EndOfStream == TurnLocals(0, <<>>, 0, <<>>, <<>>)

\* The first `except Exception` of run: it prints exc, then `output`, which is
\* unbound until the first pipeline output; then run returns.
RunExcept ==
    IF output = <<>>
    THEN /\ pc' = "raised"
         /\ run_exc' = "UnboundLocalError"
    ELSE /\ pc' = "returned"
         /\ run_exc' = "none"

SkipTranscriptNever(t) == FALSE

\* `if not transcript`
SkipTranscript(t) == Falsy(t)

SkipResponseNever(r) == FALSE

\* `if not response_text`
SkipResponse(r) == Falsy(r)

KeepMessageAny(m) == ~Falsy(m.text)

\* `isinstance(message, AIMessage) and message.text`
KeepMessage(m) == m.ai /\ ~Falsy(m.text)

RunLoopBargeIn ==
    /\ pc \in {"loop", "speaking"}
    /\ turn_number < MaxTurns
    /\ turn_number' = turn_number + 1
    /\ TurnLocals(turn_number + 1, <<>>, 0, <<>>, <<>>)
    /\ outstanding' = outstanding \cup {"transcribe"}
    /\ trace' = Append(trace, Ev("stt_call", turn_number + 1, "-"))
    /\ pc' = "transcribing"
    /\ UNCHANGED <<output, run_exc, speakVars>>
    /\ UNCHANGED eventVars

RunLoopOnce ==
    /\ pc = "loop"
    /\ turn_number < 1
    /\ turn_number' = turn_number + 1
    /\ TurnLocals(turn_number + 1, <<>>, 0, <<>>, <<>>)
    /\ outstanding' = outstanding \cup {"transcribe"}
    /\ trace' = Append(trace, Ev("stt_call", turn_number + 1, "-"))
    /\ pc' = "transcribing"
    /\ UNCHANGED <<output, run_exc, speakVars>>
    /\ UNCHANGED eventVars

\* One iteration of `while True`: a new astream, the sentinel's single item,
\* the turn counter, and the call of transcribe_fn(turn).
RunLoop ==
    /\ pc = "loop"
    /\ turn_number < MaxTurns
    /\ turn_number' = turn_number + 1
    /\ TurnLocals(turn_number + 1, <<>>, 0, <<>>, <<>>)
    /\ outstanding' = outstanding \cup {"transcribe"}
    /\ trace' = Append(trace, Ev("stt_call", turn_number + 1, "-"))
    /\ pc' = "transcribing"
    /\ UNCHANGED <<output, run_exc, speakVars>>
    /\ UNCHANGED eventVars

\* transcribe_fn returns t.  Empty: `continue`, the sentinel is exhausted and
\* the astream ends without output.  Otherwise the payload is yielded and
\* _agent_stream opens the agent stream on it.
TranscribeReturn ==
    /\ pc = "transcribing"
    /\ \E t \in Transcripts :
        IF SkipTranscript(t)
        THEN /\ EndOfStream
             /\ outstanding' = outstanding \ {"transcribe"}
             /\ trace' = Append(trace, Ev("stt_ret", turn, Heard(t)))
             /\ pc' = "loop"
        ELSE /\ TurnLocals(turn, t, 0, <<>>, <<>>)
             /\ outstanding' = (outstanding \ {"transcribe"}) \cup {"agent"}
             /\ trace' = trace \o <<Ev("stt_ret", turn, Heard(t)), Ev("agent_call", turn, "-")>>
             /\ pc' = "reasoning"
    /\ UNCHANGED <<turn_number, output, run_exc, speakVars>>
    /\ UNCHANGED eventVars

TranscribeRaiseRetry ==
    /\ pc = "transcribing"
    /\ ~(\E i \in 1..Len(trace) : trace[i].ev = "stt_exc" /\ trace[i].turn = turn)
    /\ trace' = trace \o <<Ev("stt_exc", turn, "-"), Ev("stt_call", turn, "-")>>
    /\ UNCHANGED <<pc, turn_number, turnVars, outstanding, output, run_exc, speakVars>>
    /\ UNCHANGED eventVars

TranscribeRaisePropagates ==
    /\ pc = "transcribing"
    /\ EndOfStream
    /\ outstanding' = outstanding \ {"transcribe"}
    /\ trace' = Append(trace, Ev("stt_exc", turn, "-"))
    /\ RunExcept
    /\ UNCHANGED <<turn_number, output, speakVars>>
    /\ UNCHANGED eventVars

\* transcribe_fn raises an Exception: it is printed, then `continue`.
TranscribeRaise ==
    /\ pc = "transcribing"
    /\ EndOfStream
    /\ outstanding' = outstanding \ {"transcribe"}
    /\ trace' = Append(trace, Ev("stt_exc", turn, "-"))
    /\ pc' = "loop"
    /\ UNCHANGED <<turn_number, output, run_exc, speakVars>>
    /\ UNCHANGED eventVars

\* The agent stream yields (message, metadata).
AgentMessage ==
    /\ pc = "reasoning"
    /\ agent_pos < MaxChunks
    /\ \E m \in [ai : BOOLEAN, text : Texts(MaxLen)] :
        /\ agent_response_chunks' =
              IF KeepMessage(m) THEN Append(agent_response_chunks, m.text)
              ELSE agent_response_chunks
        /\ agent_pos' = agent_pos + 1
        /\ stream_text' = IF m.ai THEN stream_text \o m.text ELSE stream_text
    /\ UNCHANGED <<pc, turn_number, turn, transcript, response_text, output,
                   run_exc, speakVars, outstanding, trace>>
    /\ UNCHANGED eventVars

\* The agent stream ends.  An empty response: `continue`, and the astream ends
\* without output.  Otherwise the payload is yielded and _tts_stream calls
\* tts_fn(response_text); the transcript and the chunk list are not read again
\* and are dropped from the state here.
AgentEnd ==
    /\ pc = "reasoning"
    /\ LET r == Strip(Join(agent_response_chunks)) IN
        IF SkipResponse(r)
        THEN /\ EndOfStream
             /\ outstanding' = outstanding \ {"agent"}
             /\ trace' = Append(trace, Ev("agent_end", turn, Kind(Join(agent_response_chunks))))
             /\ pc' = "loop"
             /\ UNCHANGED speakVars
        ELSE /\ TurnLocals(turn, <<>>, 0, <<>>, r)
             /\ outstanding' = (outstanding \ {"agent"}) \cup {"tts"}
             /\ trace' = trace \o <<Ev("agent_end", turn, Kind(Join(agent_response_chunks))),
                                   Ev("tts_call", turn, "-")>>
             /\ pc' = "speaking"
             /\ SpeakCall(r)
    /\ UNCHANGED <<turn_number, output, run_exc>>
    /\ UNCHANGED eventVars

\* The agent stream raises: nothing between it and run catches an Exception.
AgentRaise ==
    /\ pc = "reasoning"
    /\ EndOfStream
    /\ outstanding' = outstanding \ {"agent"}
    /\ trace' = Append(trace, Ev("agent_exc", turn, "-"))
    /\ RunExcept
    /\ UNCHANGED <<turn_number, output, speakVars>>
    /\ UNCHANGED eventVars

InterruptSwallowed ==
    /\ pc \in {"transcribing", "reasoning"}
    /\ EndOfStream
    /\ outstanding' = {}
    /\ trace' = Append(trace, Ev("interrupt", turn, "-"))
    /\ pc' = "loop"
    /\ UNCHANGED <<turn_number, output, run_exc, speakVars>>
    /\ UNCHANGED eventVars

\* Cancellation (KeyboardInterrupt / CancelledError) reaches run while it is
\* suspended in transcribe_fn or in the agent stream: `except Exception` does
\* not catch it and run re-raises it.
Interrupt ==
    /\ pc \in {"transcribing", "reasoning"}
    /\ EndOfStream
    /\ outstanding' = {}
    /\ trace' = Append(trace, Ev("interrupt", turn, "-"))
    /\ pc' = "raised"
    /\ run_exc' = "Interrupt"
    /\ UNCHANGED <<turn_number, output, speakVars>>
    /\ UNCHANGED eventVars

\* The speak call's frame is gone; the device objects keep their last state.
SpeakLeft ==
    /\ speak_pc' = "idle"
    /\ speak_exc' = "none"
    /\ text' = <<>>
    /\ stripped' = <<>>
    /\ produced' = 0
    /\ written' = <<>>
    /\ UNCHANGED <<synth, pyaudio, audio_stream, writer, closed_in_write>>

TtsReturnNoWait ==
    /\ pc = "speaking"
    /\ speak_pc \in {"await_chunk", "returned"}
    /\ output' = <<[turn |-> turn, status |-> "tts_complete"]>>
    /\ EndOfStream
    /\ UNCHANGED outstanding
    /\ trace' = Append(trace, Ev("output", turn, "-"))
    /\ pc' = "loop"
    /\ SpeakLeft
    /\ UNCHANGED <<turn_number, run_exc>>
    /\ UNCHANGED eventVars

\* tts_fn returns: the completion record is yielded, run prints it and pulls
\* again, and the astream ends.
TtsReturn ==
    /\ pc = "speaking"
    /\ speak_pc = "returned"
    /\ output' = <<[turn |-> turn, status |-> "tts_complete"]>>
    /\ EndOfStream
    /\ outstanding' = outstanding \ {"tts"}
    /\ trace' = trace \o <<Ev("tts_ret", turn, "-"), Ev("output", turn, "-")>>
    /\ pc' = "loop"
    /\ SpeakLeft
    /\ UNCHANGED <<turn_number, run_exc>>
    /\ UNCHANGED eventVars

TtsRaiseCompletes ==
    /\ pc = "speaking"
    /\ speak_pc = "raised"
    /\ EndOfStream
    /\ outstanding' = outstanding \ {"tts"}
    /\ IF speak_exc = "Interrupt"
       THEN /\ trace' = Append(trace, Ev("interrupt", turn, "-"))
            /\ pc' = "raised"
            /\ run_exc' = "Interrupt"
            /\ output' = output
       ELSE /\ trace' = trace \o <<Ev("tts_exc", turn, "-"), Ev("output", turn, "-")>>
            /\ output' = <<[turn |-> turn, status |-> "tts_complete"]>>
            /\ pc' = "loop"
            /\ run_exc' = run_exc
    /\ SpeakLeft
    /\ UNCHANGED turn_number
    /\ UNCHANGED eventVars

\* tts_fn raises: an Exception goes to run's handler, a cancellation leaves run.
TtsRaise ==
    /\ pc = "speaking"
    /\ speak_pc = "raised"
    /\ EndOfStream
    /\ outstanding' = outstanding \ {"tts"}
    /\ IF speak_exc = "Interrupt"
       THEN /\ trace' = Append(trace, Ev("interrupt", turn, "-"))
            /\ pc' = "raised"
            /\ run_exc' = "Interrupt"
       ELSE /\ trace' = Append(trace, Ev("tts_exc", turn, "-"))
            /\ RunExcept
    /\ SpeakLeft
    /\ UNCHANGED <<turn_number, output>>
    /\ UNCHANGED eventVars

\* ------------------------------------------------------ specifications
NoTurn ==
    /\ turn = 0
    /\ transcript = <<>>
    /\ agent_pos = 0
    /\ agent_response_chunks = <<>>
    /\ response_text = <<>>
    /\ stream_text = <<>>

\* Nothing of events.py has been called.
EventsIdle ==
    /\ events = <<>>
    /\ event = <<>>
    /\ wire = <<>>

SpeakIdle ==
    /\ speak_pc = "idle"
    /\ speak_exc = "none"
    /\ stripped = <<>>
    /\ synth = "none"
    /\ pyaudio = "none"
    /\ audio_stream = "none"
    /\ produced = 0
    /\ written = <<>>
    /\ writer = "idle"
    /\ closed_in_write = FALSE

\* main(): VoicePipeline(agent) with the default transcribe_fn and tts_fn, then run().
Init ==
    /\ pc = "loop"
    /\ turn_number = 0
    /\ NoTurn
    /\ output = <<>>
    /\ run_exc = "none"
    /\ outstanding = {}
    /\ trace = <<>>
    /\ text = <<>>
    /\ SpeakIdle
    /\ EventsIdle

Next ==
    \/ RunLoop
    \/ TranscribeReturn
    \/ TranscribeRaise
    \/ AgentMessage
    \/ AgentEnd
    \/ AgentRaise
    \/ Interrupt
    \/ SynthChunk
    \/ WriteDone
    \/ WriteRaise
    \/ SynthEnd
    \/ SynthRaise
    \/ SpeakCancel
    \/ WriterFinish
    \/ TtsReturn
    \/ TtsRaise

Spec == Init /\ [][Next]_vars

\* The loop's thread of control is always scheduled again: asyncio resumes the
\* task whenever the awaited stage call has an outcome.
FairSpec == Spec /\ WF_vars(RunLoop)

\* A direct call _play_tts_from_text(text), outside any pipeline.
InitSpeak ==
    /\ pc = "direct"
    /\ turn_number = 0
    /\ NoTurn
    /\ output = <<>>
    /\ run_exc = "none"
    /\ outstanding = {}
    /\ trace = <<>>
    /\ text \in Texts(MaxSpeakLen)
    /\ SpeakIdle
    /\ EventsIdle

SpeakDirect ==
    /\ pc = "direct"
    /\ speak_pc = "idle"
    /\ SpeakCall(text)
    /\ UNCHANGED pipeVars

NextSpeak ==
    \/ SpeakDirect
    \/ SynthChunk
    \/ WriteDone
    \/ WriteRaise
    \/ SynthEnd
    \/ SynthRaise
    \/ SpeakCancel
    \/ WriterFinish

SpecSpeak == InitSpeak /\ [][NextSpeak]_vars

\* ------------------------------------------------------------ events.py
\* Events built so far in one agent stream, at most.
MaxEvents == 2
\* Bytes of an audio payload, at most.
MaxBytes == 3
\* The latest millisecond _now_ms() may return.
MaxTs == 1

ByteVals == {0, 77, 255}

\* All byte strings of at most n bytes.
Bytes(n) == UNION {[1..k -> ByteVals] : k \in 0..n}

\* The values _now_ms() may return.
Clock == 0..MaxTs

\* Tool call ids, and the one tool of the agent.
CallIds == {"call_1", "call_2"}

ToolName == "get_weather"

ToolArgs == [location |-> "Boston"]

ToolResult == "sunny"

\* The state of the program outside events.py.
progVars == <<pc, turn_number, turnVars, output, run_exc, outstanding, trace, speakVars>>

\* The create() factories; cls is the dataclass of the instance.
UserInputEventCreate(audio, ts) ==
    [cls |-> "UserInputEvent", type |-> "user_input", audio |-> audio, ts |-> ts]

STTChunkEventCreate(transcript_, ts) ==
    [cls |-> "STTChunkEvent", type |-> "stt_chunk", transcript |-> transcript_, ts |-> ts]

STTOutputEventCreateAsChunk(transcript_, ts) ==
    [cls |-> "STTOutputEvent", type |-> "stt_chunk", transcript |-> transcript_, ts |-> ts]

STTOutputEventCreate(transcript_, ts) ==
    [cls |-> "STTOutputEvent", type |-> "stt_output", transcript |-> transcript_, ts |-> ts]

AgentChunkEventCreate(text_, ts) ==
    [cls |-> "AgentChunkEvent", type |-> "agent_chunk", text |-> text_, ts |-> ts]

AgentEndEventCreate(ts) ==
    [cls |-> "AgentEndEvent", type |-> "agent_end", ts |-> ts]

ToolCallEventCreate(id, name, args, ts) ==
    [cls |-> "ToolCallEvent", type |-> "tool_call", id |-> id, name |-> name,
     args |-> args, ts |-> ts]

ToolResultEventCreate(tool_call_id, name, result, ts) ==
    [cls |-> "ToolResultEvent", type |-> "tool_result", tool_call_id |-> tool_call_id,
     name |-> name, result |-> result, ts |-> ts]

TTSChunkEventCreate(audio, ts) ==
    [cls |-> "TTSChunkEvent", type |-> "tts_chunk", audio |-> audio, ts |-> ts]

\* The base64 alphabet, as the ASCII text .decode("ascii") gives.
B64Chars == <<
    "A", "B", "C", "D", "E", "F", "G", "H", "I", "J", "K", "L", "M", "N", "O", "P",
    "Q", "R", "S", "T", "U", "V", "W", "X", "Y", "Z", "a", "b", "c", "d", "e", "f",
    "g", "h", "i", "j", "k", "l", "m", "n", "o", "p", "q", "r", "s", "t", "u", "v",
    "w", "x", "y", "z", "0", "1", "2", "3", "4", "5", "6", "7", "8", "9", "+", "/" >>

B64Char(n) == B64Chars[n + 1]

RECURSIVE B64EncodeWholeGroups(_)
B64EncodeWholeGroups(b) ==
    IF Len(b) < 3 THEN <<>>
    ELSE <<B64Char(b[1] \div 4),
           B64Char((b[1] % 4) * 16 + b[2] \div 16),
           B64Char((b[2] % 16) * 4 + b[3] \div 64),
           B64Char(b[3] % 64)>> \o B64EncodeWholeGroups(SubSeq(b, 4, Len(b)))

\* base64.b64encode(b).decode("ascii"): three bytes give four characters, a
\* last group of one or two bytes is padded with "=".
RECURSIVE B64Encode(_)
B64Encode(b) ==
    IF Len(b) = 0 THEN <<>>
    ELSE IF Len(b) = 1 THEN
        <<B64Char(b[1] \div 4), B64Char((b[1] % 4) * 16), "=", "=">>
    ELSE IF Len(b) = 2 THEN
        <<B64Char(b[1] \div 4),
          B64Char((b[1] % 4) * 16 + b[2] \div 16),
          B64Char((b[2] % 16) * 4), "=">>
    ELSE <<B64Char(b[1] \div 4),
           B64Char((b[1] % 4) * 16 + b[2] \div 16),
           B64Char((b[2] % 16) * 4 + b[3] \div 64),
           B64Char(b[3] % 64)>> \o B64Encode(SubSeq(b, 4, Len(b)))

\* event_to_dict: the isinstance chain; anything else raises ValueError.
EventToDict(e) ==
    CASE e.cls = "UserInputEvent" -> [type |-> e.type, ts |-> e.ts]
      [] e.cls = "STTChunkEvent" ->
            [type |-> e.type, transcript |-> e.transcript, ts |-> e.ts]
      [] e.cls = "STTOutputEvent" ->
            [type |-> e.type, transcript |-> e.transcript, ts |-> e.ts]
      [] e.cls = "AgentChunkEvent" -> [type |-> e.type, text |-> e.text, ts |-> e.ts]
      [] e.cls = "AgentEndEvent" -> [type |-> e.type, ts |-> e.ts]
      [] e.cls = "ToolCallEvent" ->
            [type |-> e.type, id |-> e.id, name |-> e.name, args |-> e.args,
             ts |-> e.ts]
      [] e.cls = "ToolResultEvent" ->
            [type |-> e.type, toolCallId |-> e.tool_call_id, name |-> e.name,
             result |-> e.result, ts |-> e.ts]
      [] e.cls = "TTSChunkEvent" ->
            [type |-> e.type, audio |-> B64Encode(e.audio), ts |-> e.ts]
      [] OTHER -> [raised |-> "ValueError"]

\* The events of the AgentEvent union a caller can create at time ts.
AgentEvents(ts) ==
    {AgentChunkEventCreate(t, ts) : t \in Texts(MaxLen)}
    \cup {AgentEndEventCreate(ts)}
    \cup {ToolCallEventCreate(id, ToolName, ToolArgs, ts) : id \in CallIds}
    \cup {ToolResultEventCreate(id, ToolName, ToolResult, ts) : id \in CallIds}

\* The events of the VoiceAgentEvent union a caller can create at time ts.
VoiceAgentEvents(ts) ==
    {UserInputEventCreate(a, ts) : a \in Bytes(MaxBytes)}
    \cup {STTChunkEventCreate(t, ts) : t \in Texts(MaxLen)}
    \cup {STTOutputEventCreate(t, ts) : t \in Texts(MaxLen)}
    \cup AgentEvents(ts)
    \cup {TTSChunkEventCreate(a, ts) : a \in Bytes(MaxBytes)}

\* A caller adds an agent_chunk event to the agent stream it builds.
EmitAgentChunk ==
    /\ pc = "events"
    /\ Len(events) < MaxEvents
    /\ \E ts \in Clock, t \in Texts(MaxLen) :
        events' = Append(events, AgentChunkEventCreate(t, ts))
    /\ UNCHANGED <<progVars, event, wire>>

\* A caller adds the agent_end event.
EmitAgentEnd ==
    /\ pc = "events"
    /\ Len(events) < MaxEvents
    /\ \E ts \in Clock : events' = Append(events, AgentEndEventCreate(ts))
    /\ UNCHANGED <<progVars, event, wire>>

\* A caller adds a tool_call event.
EmitToolCall ==
    /\ pc = "events"
    /\ Len(events) < MaxEvents
    /\ \E ts \in Clock, id \in CallIds :
        events' = Append(events, ToolCallEventCreate(id, ToolName, ToolArgs, ts))
    /\ UNCHANGED <<progVars, event, wire>>

\* A caller adds a tool_result event: create() takes any call id.
EmitToolResult ==
    /\ pc = "events"
    /\ Len(events) < MaxEvents
    /\ \E ts \in Clock, id \in CallIds :
        events' = Append(events, ToolResultEventCreate(id, ToolName, ToolResult, ts))
    /\ UNCHANGED <<progVars, event, wire>>

\* A caller creates an event to serialise.
CreateEvent ==
    /\ pc = "events"
    /\ event = <<>>
    /\ \E ts \in Clock : \E e \in VoiceAgentEvents(ts) : event' = <<e>>
    /\ UNCHANGED <<progVars, events, wire>>

\* A caller hands event_to_dict something that is no event.
PassForeign ==
    /\ pc = "events"
    /\ event = <<>>
    /\ event' = <<[cls |-> "object"]>>
    /\ UNCHANGED <<progVars, events, wire>>

\* event_to_dict(event)
Serialize ==
    /\ pc = "events"
    /\ event # <<>>
    /\ wire = <<>>
    /\ wire' = <<EventToDict(event[1])>>
    /\ UNCHANGED <<progVars, events, event>>

\* A caller of events.py alone: no pipeline, no playback.
InitEvents ==
    /\ pc = "events"
    /\ turn_number = 0
    /\ NoTurn
    /\ output = <<>>
    /\ run_exc = "none"
    /\ outstanding = {}
    /\ trace = <<>>
    /\ text = <<>>
    /\ SpeakIdle
    /\ EventsIdle

NextStream ==
    \/ EmitAgentChunk
    \/ EmitAgentEnd
    \/ EmitToolCall
    \/ EmitToolResult

\* An agent stream assembled from the create() factories.
SpecStream == InitEvents /\ [][NextStream]_vars

NextSerialize ==
    \/ CreateEvent
    \/ PassForeign
    \/ Serialize

\* One event created and handed to event_to_dict.
SpecSerialize == InitEvents /\ [][NextSerialize]_vars

\* -------------------------------------------------------------- claims
Has(e, n) == \E i \in 1..Len(trace) : trace[i].ev = e /\ trace[i].turn = n

HasVal(e, n, vs) ==
    \E i \in 1..Len(trace) :
        trace[i].ev = e /\ trace[i].turn = n /\ trace[i].val \in vs

LastIs(e, n) ==
    /\ trace # <<>>
    /\ trace[Len(trace)].ev = e
    /\ trace[Len(trace)].turn = n

Interrupted == \E i \in 1..Len(trace) : trace[i].ev = "interrupt"

RunEnded == pc \in {"returned", "raised"}

\* The events that retire a turn.
RetireEvs == {"stt_exc", "agent_exc", "tts_ret", "tts_exc"}

RetiredAt(j, n) ==
    /\ trace[j].turn = n
    /\ \/ trace[j].ev \in RetireEvs
       \/ trace[j].ev = "stt_ret" /\ trace[j].val = "empty"
       \/ trace[j].ev = "agent_end" /\ trace[j].val \in {"empty", "blank"}

Turns == 1..MaxTurns

\* C1: at most one stage call (transcribe_fn, the agent stream, tts_fn) is
\* outstanding in any reachable state of run, within a turn and across turns.
C1_NoOverlap == Cardinality(outstanding) <= 1

\* C1 witness: tts_fn is the one outstanding call, in a turn after the first.
C1_Witness == outstanding = {"tts"} /\ turn = 2 /\ speak_pc = "await_write"

\* C2: transcribe_fn is called for turn N+1 only after turn N was retired
\* (tts_fn returned or raised, the turn was skipped, or the agent stage failed),
\* and no entry of a turn follows an entry of a later turn.
C2_TurnsSequential ==
    \A i \in 1..Len(trace) :
        /\ (trace[i].ev = "stt_call" /\ trace[i].turn > 1)
              => \E j \in 1..(i - 1) : RetiredAt(j, trace[i].turn - 1)
        /\ \A j \in 1..(i - 1) : trace[j].turn <= trace[i].turn

\* C2 witness: transcribe_fn was called for turn 2 after turn 1's tts_fn returned.
C2_Witness == Has("stt_call", 2) /\ Has("tts_ret", 1)

\* C3 (as claimed): the only exception that leaves run is a cancellation.
C3_OnlyInterruptLeavesRun == pc = "raised" => run_exc = "Interrupt"

\* C4 (as claimed): after the agent stream or tts_fn raised in turn N, with no
\* cancellation received, the loop is still running (so that transcribe_fn can
\* be called for turn N+1).
C4_FailedTurnKeepsLoop ==
    \A n \in Turns :
        ((Has("agent_exc", n) \/ Has("tts_exc", n)) /\ ~Interrupted) => ~RunEnded

\* C5: an empty transcript for turn N means no agent call and no tts_fn call
\* for turn N.
C5_EmptyTranscriptSkips ==
    \A n \in Turns :
        HasVal("stt_ret", n, {"empty"})
            => ~Has("agent_call", n) /\ ~Has("tts_call", n)

\* C5 witness: turn 1 returned an empty transcript and turn 2 is in its agent stage.
C5_Witness == HasVal("stt_ret", 1, {"empty"}) /\ Has("agent_call", 2)

\* C6: transcribe_fn raising in turn N is handled like an empty transcript: the
\* error does not leave run, neither the agent nor tts_fn is invoked for turn
\* N, and right after it the loop stands where an empty transcript leaves it.
C6_SttErrorSkips ==
    \A n \in Turns :
        /\ Has("stt_exc", n) => ~Has("agent_call", n) /\ ~Has("tts_call", n)
        /\ (LastIs("stt_exc", n) \/ (LastIs("stt_ret", n) /\ ~Has("agent_call", n)))
              => pc = "loop" /\ run_exc = "none" /\ outstanding = {} /\ turn = 0

\* C6 witness: transcribe_fn raised in turn 1 and was called again for turn 2.
C6_Witness == Has("stt_exc", 1) /\ Has("stt_call", 2)

\* C7: an agent stream that ends without error with an empty accumulated
\* response (no chunk, or whitespace only) leads to no tts_fn call, no error
\* and no completion output for the turn.
C7_EmptyResponseSkips ==
    \A n \in Turns :
        /\ HasVal("agent_end", n, {"empty", "blank"})
              => ~Has("tts_call", n) /\ ~Has("output", n) /\ ~Has("agent_exc", n)
        /\ (LastIs("agent_end", n) /\ ~Has("tts_call", n))
              => pc = "loop" /\ run_exc = "none" /\ outstanding = {}

\* C7 witness: turn 1's agent stream ended with zero chunks and turn 2 began.
C7_Witness == HasVal("agent_end", 1, {"empty"}) /\ Has("stt_call", 2)

SkippedTurn(n) ==
    \/ HasVal("stt_ret", n, {"empty"})
    \/ Has("stt_exc", n)
    \/ HasVal("agent_end", n, {"empty", "blank"})

\* The entry that follows turn n's transcription exit, when there is one, is
\* the call of transcribe_fn for turn n + 1.
NothingBetween(n) ==
    \A i \in 1..(Len(trace) - 1) :
        (/\ trace[i].turn = n
         /\ \/ trace[i].ev = "stt_exc"
            \/ trace[i].ev = "stt_ret" /\ trace[i].val = "empty")
            => trace[i + 1] = Ev("stt_call", n + 1, "-")

\* C8: after turn N was skipped (empty transcript, transcription error, empty
\* response) transcribe_fn is eventually called for turn N+1, and for the first
\* two cases no agent or synthesis call lies in between.
C8_SkippedTurnResumes ==
    \A n \in 1..(MaxTurns - 1) :
        /\ SkippedTurn(n) ~> Has("stt_call", n + 1)
        /\ [](NothingBetween(n))

\* C8 witness: turn 1 was skipped on a whitespace-only response and transcribe_fn
\* was called for turn 2.
C8_Witness == HasVal("agent_end", 1, {"blank"}) /\ Has("stt_call", 2)

\* C9: _play_tts_from_text on empty or whitespace-only text returns at once
\* and creates no PyAudio instance, opens no stream, requests no synthesis.
C9_BlankSpeakAcquiresNothing ==
    (pc = "direct" /\ speak_pc # "idle" /\ Blank(text))
        => /\ speak_pc = "returned"
           /\ speak_exc = "none"
           /\ pyaudio = "none"
           /\ audio_stream = "none"
           /\ synth = "none"
           /\ writer = "idle"
           /\ produced = 0

\* C9 witness: the call returned on a whitespace-only text of two characters.
C9_Witness ==
    pc = "direct" /\ speak_pc = "returned" /\ Len(text) = 2 /\ Blank(text)

\* C10: once _play_tts_from_text opened the output device, the device is
\* released (stream closed, PyAudio terminated) when the call has returned or
\* raised, and it is not held while another stage call is outstanding.
C10_DeviceReleased ==
    /\ (speak_pc \in {"returned", "raised"} /\ audio_stream # "none")
          => audio_stream = "closed" /\ pyaudio = "terminated"
    /\ (outstanding # {} /\ "tts" \notin outstanding) => audio_stream # "open"

\* C10 witness: the call was cancelled mid-stream, after one chunk was written,
\* and left with the device released.
C10_Witness ==
    /\ pc = "speaking"
    /\ speak_pc = "raised"
    /\ speak_exc = "Interrupt"
    /\ Len(written) = 1
    /\ audio_stream = "closed"

Count(e, n) ==
    Cardinality({i \in 1..Len(trace) : trace[i].ev = e /\ trace[i].turn = n})

\* The step on which _tts_stream calls tts_fn.
TtsCalled == pc = "reasoning" /\ pc' = "speaking"

\* C11 (as claimed): for every turn whose agent stream completes with a
\* non-empty response (here: one that holds more than whitespace) tts_fn is
\* called exactly once, and its argument is the concatenation, in arrival
\* order, of the text chunks of the stream.
C11_SpeaksConcatenation ==
    /\ [](\A n \in Turns :
            HasVal("agent_end", n, {"text"}) => Count("tts_call", n) = 1)
    /\ [][TtsCalled => text' = stream_text]_vars

\* C11 (amended): for every turn whose agent stream completes with a response
\* that is non-empty after stripping whitespace, and for no other turn, tts_fn
\* is called exactly once, and its argument is the concatenation, in arrival
\* order, of the text chunks of the stream with leading and trailing
\* whitespace removed.
C11_SpeaksStrippedConcatenation ==
    /\ [](\A n \in Turns :
            /\ HasVal("agent_end", n, {"text"}) => Count("tts_call", n) = 1
            /\ Has("tts_call", n) => HasVal("agent_end", n, {"text"}))
    /\ [][TtsCalled => text' = Strip(stream_text) /\ text' # <<>>]_vars

\* C11 witness: tts_fn was called with the concatenation of two chunks.
C11_Witness ==
    pc = "speaking" /\ Count("tts_call", turn) = 1 /\ text = <<"a", "a">>

\* C12: within one agent stream every tool_result event comes after a
\* tool_call event with the same call id; a stream with an orphan tool_result
\* cannot be built.
C12_NoOrphanToolResult ==
    \A i \in 1..Len(events) :
        events[i].type = "tool_result" =>
            \E j \in 1..(i - 1) :
                /\ events[j].type = "tool_call"
                /\ events[j].id = events[i].tool_call_id

\* C13: once a cancellation has reached run, run has ended by raising that
\* cancellation with no stage call outstanding, and from then on the turn
\* counter does not change and transcribe_fn is not called; a cancellation
\* received inside tts_fn is never followed by a new turn either.
C13_InterruptEndsRun ==
    /\ [](Interrupted =>
            /\ pc = "raised"
            /\ run_exc = "Interrupt"
            /\ trace[Len(trace)].ev = "interrupt"
            /\ outstanding = {})
    /\ [][(Interrupted \/ speak_exc = "Interrupt") =>
            /\ turn_number' = turn_number
            /\ pc' # "transcribing"
            /\ Len(trace') <= Len(trace) + 1
            /\ Len(trace') = Len(trace) + 1 => trace'[Len(trace')].ev = "interrupt"]_vars

\* C13 witness: run was interrupted in its first turn, with turns left to take.
C13_Witness ==
    Interrupted /\ pc = "raised" /\ turn_number = 1 /\ turn_number < MaxTurns

\* C14: the output stream is never stopped or closed while a write to it is
\* still executing in the executor thread.
C14_NoCloseDuringWrite == closed_in_write = FALSE

\* event_to_dict has been applied to the event at hand.
Serialized == event # <<>> /\ wire # <<>>

\* The dataclasses of events.py, and the kind each one declares.
EventClasses ==
    {"UserInputEvent", "STTChunkEvent", "STTOutputEvent", "AgentChunkEvent",
     "AgentEndEvent", "ToolCallEvent", "ToolResultEvent", "TTSChunkEvent"}

KindOf(cls) ==
    CASE cls = "UserInputEvent" -> "user_input"
      [] cls = "STTChunkEvent" -> "stt_chunk"
      [] cls = "STTOutputEvent" -> "stt_output"
      [] cls = "AgentChunkEvent" -> "agent_chunk"
      [] cls = "AgentEndEvent" -> "agent_end"
      [] cls = "ToolCallEvent" -> "tool_call"
      [] cls = "ToolResultEvent" -> "tool_result"
      [] cls = "TTSChunkEvent" -> "tts_chunk"

\* s is base64 text for n bytes: groups of four characters of the alphabet,
\* "=" only as padding.
IsBase64Of(s, n) ==
    /\ Len(s) = 4 * ((n + 2) \div 3)
    /\ \A i \in 1..Len(s) :
        \/ \E k \in 1..64 : B64Chars[k] = s[i]
        \/ s[i] = "=" /\ i > Len(s) - 2

\* C15: the serialized form of a user_input and of a tts_chunk event holds the
\* audio payload as base64 text, and the serialized form of every event kind
\* holds a type equal to the event's kind.
C15_AudioAsBase64 ==
    Serialized =>
        LET e == event[1]
            d == wire[1]
        IN  /\ e.cls \in {"UserInputEvent", "TTSChunkEvent"} =>
                /\ "audio" \in DOMAIN d
                /\ IsBase64Of(d.audio, Len(e.audio))
            /\ e.cls \in EventClasses => d.type = KindOf(e.cls)

\* C15 (amended): the serialized form of a tts_chunk event holds the audio
\* payload as base64 text, the serialized form of a user_input event holds
\* only type and ts, its audio left out, and the serialized form of every
\* event kind holds a type equal to the event's kind.
C15_TtsAudioAsBase64 ==
    Serialized =>
        LET e == event[1]
            d == wire[1]
        IN  /\ e.cls = "TTSChunkEvent" =>
                /\ "audio" \in DOMAIN d
                /\ IsBase64Of(d.audio, Len(e.audio))
            /\ e.cls = "UserInputEvent" => DOMAIN d = {"type", "ts"}
            /\ e.cls \in EventClasses => d.type = KindOf(e.cls)

\* C15 witness: a user_input event that carries audio has been serialized.
C15_Witness ==
    Serialized /\ event[1].cls = "UserInputEvent" /\ Len(event[1].audio) = 2

B64Index(c) == CHOOSE k \in 0..63 : B64Chars[k + 1] = c

\* The bytes a base64 text stands for.
RECURSIVE B64Decode(_)
B64Decode(s) ==
    IF Len(s) < 4 THEN <<>>
    ELSE LET s1 == B64Index(s[1])
             s2 == B64Index(s[2])
         IN  IF s[3] = "=" THEN <<s1 * 4 + s2 \div 16>>
             ELSE IF s[4] = "=" THEN
                 <<s1 * 4 + s2 \div 16, (s2 % 16) * 16 + B64Index(s[3]) \div 4>>
             ELSE <<s1 * 4 + s2 \div 16,
                    (s2 % 16) * 16 + B64Index(s[3]) \div 4,
                    (B64Index(s[3]) % 4) * 64 + B64Index(s[4])>>
                  \o B64Decode(SubSeq(s, 5, Len(s)))

\* C16: base64-decoding the audio field of a serialized tts_chunk event gives
\* back exactly the audio bytes the event was created with.
C16_TtsChunkRoundTrips ==
    (Serialized /\ event[1].cls = "TTSChunkEvent") =>
        /\ "audio" \in DOMAIN wire[1]
        /\ B64Decode(wire[1].audio) = event[1].audio

\* C16 witness: a tts_chunk event whose audio needs padding has been serialized.
C16_Witness ==
    /\ Serialized
    /\ event[1].cls = "TTSChunkEvent"
    /\ event[1].audio = <<255, 77>>
    /\ wire[1].audio = <<"/", "0", "0", "=">>

\* The calls of transcribe_fn, in the order they were made.
SttCalls == SelectSeq(trace, LAMBDA e : e.ev = "stt_call")

\* C17: the k-th call of transcribe_fn receives turn number k, whatever became
\* of the turns before it, so that no number is passed twice, and the turn
\* counter is the number of calls made.
C17_TurnNumbersCount ==
    /\ \A k \in 1..Len(SttCalls) : SttCalls[k].turn = k
    /\ Len(SttCalls) = turn_number

\* C17 witness: transcribe_fn was called for turn 2 after it raised in turn 1.
C17_Witness ==
    /\ Len(SttCalls) = 2
    /\ SttCalls[2].turn = 2
    /\ \E i \in 1..Len(trace) : trace[i].ev = "stt_exc" /\ trace[i].turn = 1

\* C18: within one playback call the chunks written to the device are the
\* chunks the synthesis stream produced, in that order; a chunk is requested
\* only when every chunk before it has been written; and when the synthesis
\* stream raises after k chunks, those k chunks have been written and the
\* device is released.
C18_WritesInProductionOrder ==
    /\ \A i \in 1..Len(written) : written[i] = i
    /\ Len(written) <= produced
    /\ produced <= Len(written) + 1
    /\ speak_pc = "await_chunk" => Len(written) = produced
    /\ (speak_pc = "raised" /\ synth = "failed") =>
            /\ Len(written) = produced
            /\ speak_exc = "Exception"
            /\ audio_stream = "closed"
            /\ pyaudio = "terminated"

\* C18 witness: the synthesis stream raised after two chunks, both written.
C18_Witness ==
    speak_pc = "raised" /\ synth = "failed" /\ produced = 2 /\ written = <<1, 2>>

\* C19: a completion record is emitted for turn n only directly after tts_fn
\* returned for turn n, n being a number transcribe_fn was called with; at most
\* one is emitted per turn, and none for a turn that was skipped or whose
\* agent or synthesis stage raised.  The record run holds is the last emitted.
C19_CompletionAfterSpeech ==
    /\ \A i \in 1..Len(trace) :
        trace[i].ev = "output" =>
            LET n == trace[i].turn
            IN  /\ i > 1
                /\ trace[i - 1] = Ev("tts_ret", n, "-")
                /\ \E j \in 1..(i - 1) : trace[j] = Ev("stt_call", n, "-")
                /\ Count("output", n) = 1
                /\ ~SkippedTurn(n)
                /\ ~Has("agent_exc", n)
                /\ ~Has("tts_exc", n)
    /\ output # <<>> =>
        /\ output[1].status = "tts_complete"
        /\ Has("output", output[1].turn)
        /\ \A n \in Turns : Has("output", n) => n <= output[1].turn
    /\ output = <<>> => \A n \in Turns : ~Has("output", n)

\* C19 witness: turn 1 was skipped and the record of turn 2 has been emitted.
C19_Witness ==
    /\ output = <<[turn |-> 2, status |-> "tts_complete"]>>
    /\ SkippedTurn(1)
    /\ LastIs("output", 2)

\* C20: whenever _play_tts_from_text has returned or raised, every audio
\* resource it acquired has been released: no PyAudio instance is left
\* unterminated and no output stream is left open, a failure of p.open()
\* included.
C20_AcquiredIsReleased ==
    speak_pc \in {"returned", "raised"} =>
        /\ pyaudio \in {"none", "terminated"}
        /\ audio_stream \in {"none", "closed"}

====
